---- MODULE Spec2Model ----
(***************************************************************************)
(* State machine of the MovieRecommender component (src/app/page.tsx):     *)
(* the catalog fetch issued by the mount effect, the selection handler,    *)
(* the recommendation request and the completions of the two fetches.      *)
(* Strings holding a number (the <option> values, selectedMovieId) are     *)
(* sequences of decimal digits, so that String(id) and parseInt(value)     *)
(* are real conversions; "" is the empty sequence.                         *)
(***************************************************************************)
EXTENDS Integers, Sequences, FiniteSets

VARIABLES movies, selectedMovieId, selectedMovie, recommendations, loading,
          fetchingMovies, error,
          catalogIssued, catalogPending, inflight,
          lastEvent, selections, recommendationsFor

vars == <<movies, selectedMovieId, selectedMovie, recommendations, loading,
          fetchingMovies, error, catalogIssued, catalogPending, inflight,
          lastEvent, selections, recommendationsFor>>

(* ------------------------------ bounds --------------------------------- *)

\* longest catalog the backend returns
MaxMovies == 2
\* longest recommendation list the backend returns
MaxRecs == 1
\* most recommendation requests pending together
MaxInFlight == 2
\* number of most recent selections kept in the observation log
MaxSelections == 3
\* longest movie duration, in minutes, given to formatDuration
MaxMinutes == 130

(* ------------------------------ values --------------------------------- *)

\* useState<string | null>(null)
NULL == "null"

\* useState<Movie | null>(null): the null of selectedMovie
NoMovie == [null |-> TRUE]

\* the empty string '' of useState<string>('') and of the placeholder option
EmptyString == <<>>

CatalogFailedMsg == "Failed to load movies. Please check if the backend is running."
SelectFirstMsg == "Please select a movie first"
RecommendFailedMsg == "Failed to get recommendations. Please try again."

\* Movie records the backend can return; two of them share the id 1
MovieUniverse ==
    { [id |-> 1,  title |-> "Alien", duration |-> 125],
      [id |-> 12, title |-> "Brazil", duration |-> 45],
      [id |-> 1,  title |-> "Casablanca", duration |-> 60] }

\* RecommendationItem records the backend can return
RecommendationItems ==
    { [title |-> "Dune", similarity_score |-> 85],
      [title |-> "Eraserhead", similarity_score |-> 40] }

SeqsUpTo(S, n) == UNION { [1..k -> S] : k \in 0..n }

\* the catalogs the backend can return: no record twice, ids possibly shared
Catalogs ==
    { ms \in SeqsUpTo(MovieUniverse, MaxMovies) :
          \A i, j \in 1..Len(ms) : ms[i] = ms[j] => i = j }

\* body of GET /movies: ApiResponse, the movies field possibly absent
ApiResponses ==
    { [movies |-> ms, total |-> Len(ms)] : ms \in Catalogs } \cup { [total |-> 0] }

\* body of GET /recommend/{id}: RecommendationResponse, the recommendations
\* field possibly absent
RecommendationResponses ==
    { [recommendations |-> rs, total_found |-> Len(rs)] :
          rs \in SeqsUpTo(RecommendationItems, MaxRecs) }
      \cup { [total_found |-> 0] }

\* what `await fetch(url)` followed by `await response.json()` can give:
\* a rejected promise, or a Response with its ok flag and parsed body
FetchResults(Bodies) ==
    { [rejected |-> TRUE] }
      \cup { [rejected |-> FALSE, ok |-> FALSE, status |-> 500] }
      \cup { [rejected |-> FALSE, ok |-> TRUE, status |-> 200, data |-> b] : b \in Bodies }

\* the try block runs to its end: no rejection and response.ok
Succeeds(res) == ~res.rejected /\ res.ok

(* --------------------------- pure functions ---------------------------- *)

RECURSIVE ToString(_)
\* String(n) for a non-negative integer: its decimal digits
ToString(n) == IF n < 10 THEN <<n>> ELSE Append(ToString(n \div 10), n % 10)

RECURSIVE DigitsValue(_)
DigitsValue(s) ==
    IF s = <<>> THEN 0 ELSE 10 * DigitsValue(SubSeq(s, 1, Len(s) - 1)) + s[Len(s)]

RECURSIVE OctalValue(_)
OctalValue(s) ==
    IF s = <<>> THEN 0 ELSE 8 * OctalValue(SubSeq(s, 1, Len(s) - 1)) + s[Len(s)]

\* parseInt(s, 8): the digits read in base 8
ParseInt_octal(s) ==
    IF s = <<>> THEN [nan |-> TRUE, value |-> 0]
                ELSE [nan |-> FALSE, value |-> OctalValue(s)]

\* parseInt(s) of a digit string: NaN for '', else the number
ParseInt(s) ==
    IF s = EmptyString THEN [nan |-> TRUE, value |-> 0]
                       ELSE [nan |-> FALSE, value |-> DigitsValue(s)]

\* m.id === movieId, a number compared with the string: never equal
StrictEquals_noParse(id, parsed) == FALSE

\* m.id === parseInt(movieId): NaN equals nothing
StrictEquals(id, parsed) == ~parsed.nan /\ id = parsed.value

\* movies.find(pred) || null, with pred = m => m.id === parseInt(movieId)
Find(ms, movieId) ==
    LET hits == { i \in 1..Len(ms) : StrictEquals(ms[i].id, ParseInt(movieId)) }
    IN  IF hits = {} THEN NoMovie
        ELSE ms[CHOOSE i \in hits : \A j \in hits : i <= j]

\* the characters '0' .. '9'
DigitChars == <<"0", "1", "2", "3", "4", "5", "6", "7", "8", "9">>

\* `${n}` in a template literal, for a non-negative integer: one character
\* per decimal digit
Interpolate(n) == [i \in 1..Len(ToString(n)) |-> DigitChars[ToString(n)[i] + 1]]

\* the % 60 left out of mins
formatDuration_noModulo(minutes) ==
    LET hours == minutes \div 60
        mins  == minutes
    IN  IF hours > 0
        THEN Interpolate(hours) \o <<"h", " ">> \o Interpolate(mins) \o <<"m">>
        ELSE Interpolate(mins) \o <<"m">>

\* formatDuration, its result as a sequence of characters
formatDuration(minutes) ==
    LET hours == minutes \div 60
        mins  == minutes % 60
    IN  IF hours > 0
        THEN Interpolate(hours) \o <<"h", " ">> \o Interpolate(mins) \o <<"m">>
        ELSE Interpolate(mins) \o <<"m">>

\* the value attributes of the <option> elements, in document order:
\* the placeholder, then one per movie
Options == <<EmptyString>> \o [i \in 1..Len(movies) |-> ToString(movies[i].id)]

\* the handler bound to an event that fires on every pick, changed or not
SelectedIndex_none == Len(Options) + 1

\* the option the controlled <select value={selectedMovieId}> displays: the
\* first one carrying that value (the first option when none does)
SelectedIndex ==
    LET hits == { i \in 1..Len(Options) : Options[i] = selectedMovieId }
    IN  IF hits = {} THEN 1 ELSE CHOOSE i \in hits : \A j \in hits : i <= j

\* if (fetchingMovies) return <loading view>
LoadingView == fetchingMovies

\* disabled={!selectedMovieId}
ButtonDisabled_ignoresLoading == selectedMovieId = EmptyString

\* disabled={loading}
ButtonDisabled_ignoresSelection == loading

\* disabled={!selectedMovieId || loading}
ButtonDisabled == selectedMovieId = EmptyString \/ loading

\* useEffect(...) without the [] dependency list: runs again after a render
EffectDue_everyRender == catalogIssued < 2

\* useEffect(..., [selectedMovieId]): runs again when the selection changes
EffectDue_onSelection ==
    catalogIssued = 0 \/ (catalogIssued < 2 /\ selectedMovieId # EmptyString)

\* useEffect(..., []) runs after the first commit only
EffectDue == catalogIssued = 0

RemoveAt(s, k) == SubSeq(s, 1, k - 1) \o SubSeq(s, k + 1, Len(s))

LastN(s, n) == IF Len(s) <= n THEN s ELSE SubSeq(s, Len(s) - n + 1, Len(s))

(* ------------------------------- Init ---------------------------------- *)

Init ==
    /\ movies = <<>>
    /\ selectedMovieId = EmptyString
    /\ selectedMovie = NoMovie
    /\ recommendations = <<>>
    /\ loading = FALSE
    /\ fetchingMovies = TRUE
    /\ error = NULL
    /\ catalogIssued = 0
    /\ catalogPending = 0
    /\ inflight = <<>>
    /\ lastEvent = [op |-> "mount"]
    /\ selections = <<>>
    /\ recommendationsFor = EmptyString

(* ------------------------------ handlers ------------------------------- *)

\* the mount effect up to its first await
fetchMovies ==
    /\ EffectDue
    /\ fetchingMovies' = TRUE
    /\ catalogIssued' = catalogIssued + 1
    /\ catalogPending' = catalogPending + 1
    /\ lastEvent' = [op |-> "fetchMovies"]
    /\ UNCHANGED <<movies, selectedMovieId, selectedMovie, recommendations,
                   loading, error, inflight, selections, recommendationsFor>>

\* setFetchingMovies(false) at the end of the try block instead of in finally
fetchMoviesSettled_noFinally(res) ==
    IF Succeeds(res)
    THEN /\ movies' = IF "movies" \in DOMAIN res.data THEN res.data.movies ELSE <<>>
         /\ error' = error
         /\ fetchingMovies' = FALSE
    ELSE /\ error' = CatalogFailedMsg
         /\ movies' = movies
         /\ fetchingMovies' = fetchingMovies

\* the setMovies call left out
fetchMoviesSettled_ignoresData(res) ==
    /\ IF Succeeds(res)
       THEN /\ movies' = movies
            /\ error' = error
       ELSE /\ error' = CatalogFailedMsg
            /\ movies' = movies
    /\ fetchingMovies' = FALSE

\* the rest of fetchMovies once the fetch has settled with res
fetchMoviesSettled(res) ==
    /\ IF Succeeds(res)
       THEN /\ movies' = IF "movies" \in DOMAIN res.data THEN res.data.movies ELSE <<>>
            /\ error' = error
       ELSE /\ error' = CatalogFailedMsg
            /\ movies' = movies
    /\ fetchingMovies' = FALSE

FetchMoviesDone ==
    /\ catalogPending > 0
    /\ \E res \in FetchResults(ApiResponses) :
          /\ fetchMoviesSettled(res)
          /\ lastEvent' = [op |-> "fetchMoviesSettled", ok |-> Succeeds(res), res |-> res]
    /\ catalogPending' = catalogPending - 1
    /\ UNCHANGED <<selectedMovieId, selectedMovie, recommendations, loading,
                   catalogIssued, inflight, selections, recommendationsFor>>

\* setRecommendations([]) left out
handleMovieSelection_keepsRecommendations(movieId) ==
    /\ selectedMovieId' = movieId
    /\ selectedMovie' = Find(movies, movieId)
    /\ recommendations' = recommendations
    /\ error' = NULL

\* the lookup reads the state selectedMovieId, still the previous value
handleMovieSelection_staleId(movieId) ==
    /\ selectedMovieId' = movieId
    /\ selectedMovie' = Find(movies, selectedMovieId)
    /\ recommendations' = <<>>
    /\ error' = NULL

handleMovieSelection(movieId) ==
    /\ selectedMovieId' = movieId
    /\ selectedMovie' = Find(movies, movieId)
    /\ recommendations' = <<>>
    /\ error' = NULL

\* onChange of the <select>: the user picks the i-th option, another one than
\* the option displayed (a change event needs a change)
OnChange ==
    /\ ~LoadingView
    /\ \E i \in 1..Len(Options) :
          /\ i # SelectedIndex
          /\ handleMovieSelection(Options[i])
          /\ lastEvent' = [op |-> "handleMovieSelection", entry |-> i,
                           hadRecommendations |-> recommendations # <<>>,
                           hadError |-> error # NULL]
          /\ selections' = LastN(Append(selections,
                                 [movieId |-> Options[i], resolved |-> selectedMovie']),
                                 MaxSelections)
    /\ recommendationsFor' = EmptyString
    /\ UNCHANGED <<movies, loading, fetchingMovies, catalogIssued, catalogPending,
                   inflight>>

\* the !selectedMovieId check left out
getRecommendations_noCheck ==
    /\ loading' = TRUE
    /\ error' = NULL
    /\ inflight' = Append(inflight, [movieId |-> selectedMovieId])

\* getRecommendations up to its first await
getRecommendations ==
    IF selectedMovieId = EmptyString
    THEN /\ error' = SelectFirstMsg
         /\ UNCHANGED <<loading, inflight>>
    ELSE /\ loading' = TRUE
         /\ error' = NULL
         /\ inflight' = Append(inflight, [movieId |-> selectedMovieId])

\* one call of getRecommendations
Invoke ==
    /\ Len(inflight) < MaxInFlight
    /\ getRecommendations
    /\ lastEvent' = [op |-> "getRecommendations",
                     issued |-> inflight' # inflight]
    /\ UNCHANGED <<movies, selectedMovieId, selectedMovie, recommendations,
                   fetchingMovies, catalogIssued, catalogPending, selections,
                   recommendationsFor>>

\* onClick of the button, which the browser delivers only while enabled
OnClick == ~LoadingView /\ ~ButtonDisabled /\ Invoke

\* getRecommendations called although the button is disabled
OnClickBypassed == ~LoadingView /\ Invoke

\* setLoading(false) at the end of the try block instead of in finally
recommendationsSettled_noFinally(res) ==
    IF Succeeds(res)
    THEN /\ recommendations' = IF "recommendations" \in DOMAIN res.data
                               THEN res.data.recommendations ELSE <<>>
         /\ error' = error
         /\ loading' = FALSE
    ELSE /\ error' = RecommendFailedMsg
         /\ recommendations' = recommendations
         /\ loading' = loading

\* the rest of getRecommendations once its fetch has settled with res
recommendationsSettled(res) ==
    /\ IF Succeeds(res)
       THEN /\ recommendations' = IF "recommendations" \in DOMAIN res.data
                                  THEN res.data.recommendations ELSE <<>>
            /\ error' = error
       ELSE /\ error' = RecommendFailedMsg
            /\ recommendations' = recommendations
    /\ loading' = FALSE

\* the previous event was the completion of one of several requests that
\* were in flight together, so the next completion is of a request that raced
\* with it
RaceJustSettled ==
    lastEvent.op = "recommendationsSettled" /\ lastEvent.pending >= 2

RecommendationsDone ==
    /\ \E k \in 1..Len(inflight) :
          /\ inflight' = RemoveAt(inflight, k)
          /\ \E res \in FetchResults(RecommendationResponses) :
                /\ recommendationsSettled(res)
                /\ lastEvent' = [op |-> "recommendationsSettled", ok |-> Succeeds(res),
                                 request |-> inflight[k],
                                 res |-> res,
                                 pending |-> Len(inflight),
                                 afterRace |-> RaceJustSettled,
                                 issuedBeforePrevious |->
                                     RaceJustSettled /\ k < lastEvent.position,
                                 position |-> k]
                /\ recommendationsFor' = IF Succeeds(res) THEN inflight[k].movieId
                                                           ELSE recommendationsFor
    /\ UNCHANGED <<movies, selectedMovieId, selectedMovie, fetchingMovies,
                   catalogIssued, catalogPending, selections>>

(* --------------------------- specifications ---------------------------- *)

Next == fetchMovies \/ FetchMoviesDone \/ OnChange \/ OnClick \/ RecommendationsDone

Spec == Init /\ [][Next]_vars

NextBypass ==
    fetchMovies \/ FetchMoviesDone \/ OnChange \/ OnClickBypassed \/ RecommendationsDone

SpecBypass == Init /\ [][NextBypass]_vars

\* the effect runs after mount and every fetch settles
FairSpec ==
    Spec /\ WF_vars(fetchMovies) /\ WF_vars(FetchMoviesDone) /\ WF_vars(RecommendationsDone)

\* the duration text of the detail panel, rendered for the resolved selection
DetailDuration ==
    IF selectedMovie = NoMovie THEN <<>> ELSE formatDuration(selectedMovie.duration)

\* the ready state reached from a catalog of one movie, of any duration up to
\* MaxMinutes
FormatInit ==
    \E m \in 0..MaxMinutes :
        LET ms  == <<[id |-> 1, title |-> "Alien", duration |-> m]>>
            res == [rejected |-> FALSE, ok |-> TRUE, status |-> 200,
                    data |-> [movies |-> ms, total |-> 1]]
        IN  /\ movies = ms
            /\ selectedMovieId = EmptyString
            /\ selectedMovie = NoMovie
            /\ recommendations = <<>>
            /\ loading = FALSE
            /\ fetchingMovies = FALSE
            /\ error = NULL
            /\ catalogIssued = 1
            /\ catalogPending = 0
            /\ inflight = <<>>
            /\ lastEvent = [op |-> "fetchMoviesSettled", ok |-> TRUE, res |-> res]
            /\ selections = <<>>
            /\ recommendationsFor = EmptyString

\* the user selects and deselects the movie; the detail panel renders its
\* duration with formatDuration
FormatNext == OnChange

FormatSpec == FormatInit /\ [][FormatNext]_vars

(* ------------------------------ properties ----------------------------- *)

TypeOK ==
    /\ movies \in SeqsUpTo(MovieUniverse, MaxMovies)
    /\ selectedMovieId \in {EmptyString} \cup { ToString(m.id) : m \in MovieUniverse }
    /\ selectedMovie \in MovieUniverse \cup {NoMovie}
    /\ recommendations \in SeqsUpTo(RecommendationItems, MaxRecs)
    /\ loading \in BOOLEAN
    /\ fetchingMovies \in BOOLEAN
    /\ error \in {NULL, CatalogFailedMsg, SelectFirstMsg, RecommendFailedMsg}
    /\ catalogIssued \in 0..1
    /\ catalogPending \in 0..1
    /\ Len(inflight) <= MaxInFlight
    /\ Len(selections) <= MaxSelections
    /\ recommendationsFor \in {EmptyString} \cup { ToString(m.id) : m \in MovieUniverse }

\* C1: right after handleMovieSelection has run, for any option including the
\* placeholder, the recommendation list is empty and no error message is set,
\* whatever they were before.
C1_SelectionClears ==
    lastEvent.op = "handleMovieSelection"
        => recommendations = <<>> /\ error = NULL

\* a selection of the placeholder made while recommendations and an error
\* message were both on display
C1_Witness ==
    /\ lastEvent.op = "handleMovieSelection"
    /\ lastEvent.entry = 1
    /\ lastEvent.hadRecommendations
    /\ lastEvent.hadError

\* C2: a call of getRecommendations with no movie selected issues no request,
\* sets the error message "Please select a movie first", and leaves the
\* loading flag, the recommendation list, the selection and the catalog as
\* they were.
C2_NoSelectionNoRequest ==
    [][ (selectedMovieId = EmptyString /\ lastEvent'.op = "getRecommendations")
          => /\ error' = SelectFirstMsg
             /\ ~lastEvent'.issued
             /\ UNCHANGED <<inflight, loading, recommendations, selectedMovieId,
                            selectedMovie, movies>> ]_vars

\* getRecommendations was called with no selection while a recommendation
\* list was on display, and nothing but the message changed
C2_Witness ==
    /\ lastEvent.op = "getRecommendations"
    /\ ~lastEvent.issued
    /\ selectedMovieId = EmptyString
    /\ error = SelectFirstMsg
    /\ recommendations # <<>>
    /\ movies # <<>>

\* C3: when the button is only pressed while enabled, at most one
\* recommendation request is in flight, for every interleaving of selections,
\* presses and completions.
C3_AtMostOneInFlight == Len(inflight) <= 1

\* a request is in flight and the user has since selected another movie
C3_Witness ==
    /\ Len(inflight) = 1
    /\ loading
    /\ lastEvent.op = "handleMovieSelection"
    /\ selectedMovieId # EmptyString
    /\ selectedMovieId # inflight[1].movieId

\* C4: when a recommendation request fails, at its completion the error
\* message is "Failed to get recommendations. Please try again.", the stored
\* recommendation list is empty and the loading flag is false, whatever
\* preceded the failure.
C4_FailureLeavesNoRecommendations ==
    (lastEvent.op = "recommendationsSettled" /\ ~lastEvent.ok)
        => /\ error = RecommendFailedMsg
           /\ recommendations = <<>>
           /\ ~loading

\* C5: when the catalog fetch fails (rejected promise or non-success status),
\* the UI is ready with the catalog error message, an empty catalog and a
\* selection control that offers the placeholder only.
C5_CatalogFailure ==
    (lastEvent.op = "fetchMoviesSettled" /\ ~lastEvent.ok)
        => /\ ~fetchingMovies
           /\ ~LoadingView
           /\ error = CatalogFailedMsg
           /\ movies = <<>>
           /\ Options = <<EmptyString>>

\* the catalog endpoint answered HTTP 500
C5_Witness ==
    /\ lastEvent.op = "fetchMoviesSettled"
    /\ ~lastEvent.res.rejected
    /\ ~lastEvent.res.ok
    /\ lastEvent.res.status = 500
    /\ ~fetchingMovies

\* C6: when the catalog fetch succeeds, the UI is ready with the catalog equal
\* to the returned movie sequence (empty when the movies field is absent or
\* []), no error message, and one option per returned movie after the
\* placeholder.
C6_CatalogSuccess ==
    (lastEvent.op = "fetchMoviesSettled" /\ lastEvent.ok)
        => /\ ~fetchingMovies
           /\ ~LoadingView
           /\ error = NULL
           /\ IF "movies" \in DOMAIN lastEvent.res.data
              THEN movies = lastEvent.res.data.movies
              ELSE movies = <<>>
           /\ Len(Options) = Len(movies) + 1

\* the catalog endpoint returned two movies
C6_Witness ==
    /\ lastEvent.op = "fetchMoviesSettled"
    /\ lastEvent.ok
    /\ "movies" \in DOMAIN lastEvent.res.data
    /\ Len(lastEvent.res.data.movies) = 2
    /\ movies = lastEvent.res.data.movies
    /\ error = NULL
    /\ ~fetchingMovies

\* the catalog endpoint returned movies: []
C6_EmptyCatalogReached ==
    /\ lastEvent.op = "fetchMoviesSettled"
    /\ lastEvent.ok
    /\ "movies" \in DOMAIN lastEvent.res.data
    /\ lastEvent.res.data.movies = <<>>
    /\ Options = <<EmptyString>>

\* C7: the catalog request is issued exactly once, at initialization, and is
\* never issued again, not after a failure either; the loading-catalog state
\* is never re-entered once left, and, every fetch settling, it is left and
\* the single request is over for good.
C7_CatalogFetchedOnce ==
    /\ [](catalogIssued <= 1)
    /\ [][catalogIssued' >= catalogIssued]_vars
    /\ [][~fetchingMovies => ~fetchingMovies']_vars
    /\ <>[](catalogIssued = 1 /\ catalogPending = 0 /\ ~fetchingMovies)

\* the single catalog request has failed and has left the loading-catalog
\* state, with no second request issued
C7_Witness ==
    /\ catalogIssued = 1
    /\ catalogPending = 0
    /\ ~fetchingMovies
    /\ error = CatalogFailedMsg
    /\ lastEvent.op = "fetchMoviesSettled"

\* C8: while the catalog is loading, no selection and no recommendation
\* request has occurred: the selection is unset, the recommendation list is
\* empty, the loading flag is false and no recommendation request is in
\* flight; so the two fetches are never in flight together.
C8_LoadingCatalogIsolated ==
    /\ fetchingMovies =>
          /\ lastEvent.op \in {"mount", "fetchMovies"}
          /\ selectedMovieId = EmptyString
          /\ selectedMovie = NoMovie
          /\ recommendations = <<>>
          /\ ~loading
          /\ inflight = <<>>
    /\ ~(catalogPending > 0 /\ Len(inflight) > 0)

\* the catalog request is pending
C8_Witness ==
    /\ fetchingMovies
    /\ catalogPending = 1
    /\ lastEvent.op = "fetchMovies"

\* no two movies of the catalog have the same id
UniqueIds(ms) == \A i, j \in 1..Len(ms) : ms[i].id = ms[j].id => i = j

\* C9: for a loaded catalog with unique ids, the selection control offers the
\* placeholder and then exactly one entry per movie, carrying that movie's
\* id; selecting a movie's entry resolves the selection to that movie, whose
\* id is the entry's value, and selecting the placeholder resolves to none.
C9_EntryResolvesToItsMovie ==
    (~fetchingMovies /\ UniqueIds(movies)) =>
        /\ Len(Options) = Len(movies) + 1
        /\ Options[1] = EmptyString
        /\ \A i \in 1..Len(movies) :
              /\ Options[i + 1] # EmptyString
              /\ StrictEquals(movies[i].id, ParseInt(Options[i + 1]))
        /\ lastEvent.op = "handleMovieSelection" =>
              /\ selectedMovieId = Options[lastEvent.entry]
              /\ IF lastEvent.entry = 1
                 THEN selectedMovie = NoMovie
                 ELSE /\ selectedMovie = movies[lastEvent.entry - 1]
                      /\ StrictEquals(selectedMovie.id, ParseInt(selectedMovieId))

\* the second movie of a two-movie catalog, with the two-digit id 12, was
\* selected
C9_Witness ==
    /\ UniqueIds(movies)
    /\ Len(movies) = 2
    /\ lastEvent.op = "handleMovieSelection"
    /\ lastEvent.entry = 3
    /\ selectedMovieId = <<1, 2>>
    /\ selectedMovie = movies[2]

\* C10: among the most recent selections, two selections of the same option
\* value resolved to the same Movie record; in particular selecting A, then
\* B, then A again resolves to the record of the first selection of A,
\* whatever requests and completions came in between.
C10_LookupRoundTrip ==
    \A i, j \in 1..Len(selections) :
        selections[i].movieId = selections[j].movieId
            => selections[i].resolved = selections[j].resolved

\* A, then B, then A were selected, a request issued for B being in flight
C10_Witness ==
    /\ Len(selections) = 3
    /\ selections[1].movieId = selections[3].movieId
    /\ selections[1].movieId # selections[2].movieId
    /\ selections[1].resolved # NoMovie
    /\ selections[2].resolved # NoMovie
    /\ selections[3].resolved = selections[1].resolved
    /\ Len(inflight) = 1
    /\ inflight[1].movieId = selections[2].movieId
    /\ lastEvent.op = "handleMovieSelection"

\* C11: for every number of minutes m >= 0, formatDuration(m) is "<H>h <M>m"
\* with H = m div 60 and M = m mod 60 when H > 0, and "<M>m" with M = m
\* otherwise; formatDuration(125) is "2h 5m" and formatDuration(45) is "45m".
C11_FormatDuration ==
    selectedMovie # NoMovie =>
        LET m == selectedMovie.duration
            H == m \div 60
        IN  /\ H > 0 => DetailDuration =
                  Interpolate(H) \o <<"h", " ">> \o Interpolate(m % 60) \o <<"m">>
            /\ H = 0 => DetailDuration = Interpolate(m) \o <<"m">>
            /\ m = 125 => DetailDuration = <<"2", "h", " ", "5", "m">>
            /\ m = 45 => DetailDuration = <<"4", "5", "m">>
            /\ m = 60 => DetailDuration = <<"1", "h", " ", "0", "m">>
            /\ m = 0 => DetailDuration = <<"0", "m">>

\* the detail panel shows the duration of a 125-minute movie
C11_Witness ==
    /\ selectedMovie # NoMovie
    /\ selectedMovie.duration = 125
    /\ DetailDuration = <<"2", "h", " ", "5", "m">>
    /\ lastEvent.op = "handleMovieSelection"

\* C12: in every reachable state a non-empty stored recommendation list was
\* returned by a request issued for the currently selected movie identifier,
\* never for a previously selected one, for any interleaving of selection
\* changes with requests in flight and their completions.
C12_RecommendationsMatchSelection ==
    recommendations # <<>> => recommendationsFor = selectedMovieId

\* C13: when the button is only pressed while enabled, the loading flag is
\* true exactly while a recommendation request is in flight: it becomes true
\* when a request is issued, a selection leaves it as it is, it becomes false
\* when the request completes with success or failure, and, every fetch
\* settling, a request that was issued always leaves the loading state.
C13_LoadingTracksRequest ==
    /\ [](loading <=> Len(inflight) > 0)
    /\ [][(lastEvent'.op = "getRecommendations" /\ lastEvent'.issued) => loading']_vars
    /\ [][lastEvent'.op = "handleMovieSelection" => loading' = loading]_vars
    /\ [][lastEvent'.op = "recommendationsSettled" => (loading /\ ~loading')]_vars
    /\ (loading ~> ~loading)

\* a request has failed and the loading state was left
C13_Witness ==
    /\ lastEvent.op = "recommendationsSettled"
    /\ ~lastEvent.ok
    /\ ~loading
    /\ inflight = <<>>

\* a selection was made while a request was in flight, and the flag stayed
C13_SelectionWhileLoadingReached ==
    /\ lastEvent.op = "handleMovieSelection"
    /\ loading
    /\ Len(inflight) = 1

\* what a completion leaves in the recommendation list according to the
\* contract of the Recommendation Requester: the returned list (empty when
\* absent) on success, the empty list on failure
ListLeftBy(res) ==
    IF Succeeds(res)
    THEN IF "recommendations" \in DOMAIN res.data THEN res.data.recommendations ELSE <<>>
    ELSE <<>>

\* C14: when two requests were in flight together, after both have completed
\* the stored recommendation list and the loading flag are those of the
\* completion that arrived last, whichever of the two was issued first.
C14_LastArrivalWins ==
    (lastEvent.op = "recommendationsSettled" /\ lastEvent.afterRace)
        => /\ ~loading
           /\ recommendations = ListLeftBy(lastEvent.res)

\* the same, for a last arrival that is a success
C14_LastSuccessWins ==
    (lastEvent.op = "recommendationsSettled" /\ lastEvent.afterRace /\ lastEvent.ok)
        => /\ ~loading
           /\ recommendations = ListLeftBy(lastEvent.res)

\* of two racing requests the one issued first arrived last, with a list
C14_FirstIssuedArrivedLast ==
    /\ lastEvent.op = "recommendationsSettled"
    /\ lastEvent.afterRace
    /\ lastEvent.issuedBeforePrevious
    /\ lastEvent.ok
    /\ recommendations # <<>>
    /\ inflight = <<>>

\* C15: once the catalog fetch has completed the stored catalog, and every
\* Movie record in it, never changes again, whatever handleMovieSelection,
\* getRecommendations and the completions of requests do; and
\* handleMovieSelection leaves the loading flag as it is.
C15_CatalogFrozen ==
    /\ [][~fetchingMovies => movies' = movies]_vars
    /\ [][lastEvent'.op \in {"handleMovieSelection", "getRecommendations",
                             "recommendationsSettled"} => movies' = movies]_vars
    /\ [][lastEvent'.op = "handleMovieSelection" => loading' = loading]_vars

\* with a loaded catalog of two movies, a request was issued, a selection
\* made while it was pending, and the request has failed
C15_Witness ==
    /\ ~fetchingMovies
    /\ Len(movies) = 2
    /\ Len(selections) >= 2
    /\ lastEvent.op = "recommendationsSettled"
    /\ ~lastEvent.ok
    /\ lastEvent.request.movieId # selectedMovieId

\* `selectedMovie && ...`: the detail panel is rendered
DetailPanelShown == selectedMovie # NoMovie

\* `!selectedMovieId` of the button and of getRecommendations is false
HasSelectedId == selectedMovieId # EmptyString

\* C16: in every reachable state the raw selected identifier and the resolved
\* selection agree: the resolved Movie is empty exactly when the raw
\* identifier is the placeholder's empty string, and otherwise it is the
\* catalog entry whose id equals the raw identifier; so the button's test on
\* the raw identifier and the detail panel's test on the resolved Movie
\* never disagree.
C16_RawAndResolvedAgree ==
    /\ selectedMovie = NoMovie <=> selectedMovieId = EmptyString
    /\ selectedMovieId # EmptyString =>
          /\ \E i \in 1..Len(movies) : movies[i] = selectedMovie
          /\ ToString(selectedMovie.id) = selectedMovieId
    /\ HasSelectedId <=> DetailPanelShown
    /\ (~fetchingMovies /\ ~loading) => (~ButtonDisabled <=> DetailPanelShown)

\* the movie with the two-digit id 12 is selected and resolved
C16_Witness ==
    /\ selectedMovieId = <<1, 2>>
    /\ selectedMovie # NoMovie
    /\ selectedMovie.id = 12
    /\ ~ButtonDisabled
    /\ DetailPanelShown

\* C17: when the button is only pressed while enabled, the error message
\* "Please select a movie first" is never set: every call of
\* getRecommendations finds a selection and issues its request, the button
\* being disabled wherever the check of getRecommendations would fail.
C17_SelectFirstNeverShown ==
    /\ error # SelectFirstMsg
    /\ lastEvent.op = "getRecommendations" => lastEvent.issued
    /\ (~LoadingView /\ ~ButtonDisabled) => selectedMovieId # EmptyString

\* the button was pressed while enabled and the request was issued
C17_Witness ==
    /\ lastEvent.op = "getRecommendations"
    /\ lastEvent.issued
    /\ error = NULL
    /\ loading

\* the catalog fetch has failed and nothing has happened since
CatalogFailed == lastEvent.op = "fetchMoviesSettled" /\ ~lastEvent.ok

\* C18: after a failure of the catalog fetch the state is terminal: the
\* catalog stays empty, the selection control offers the placeholder only,
\* the button stays disabled, and no operation the UI can reach occurs, so
\* the catalog error message is never cleared or replaced.
C18_CatalogFailureTerminal ==
    /\ [](CatalogFailed =>
            /\ ~fetchingMovies
            /\ movies = <<>>
            /\ Options = <<EmptyString>>
            /\ ButtonDisabled
            /\ inflight = <<>>
            /\ error = CatalogFailedMsg)
    /\ [][CatalogFailed => (CatalogFailed' /\ error' = CatalogFailedMsg
                                           /\ movies' = <<>>)]_vars

\* the catalog fetch was rejected (network error); the UI is ready with the
\* message, the placeholder alone and a disabled button
C18_Witness ==
    /\ CatalogFailed
    /\ lastEvent.res.rejected
    /\ ~fetchingMovies
    /\ Options = <<EmptyString>>
    /\ ButtonDisabled
    /\ error = CatalogFailedMsg

====
